---- MODULE Spec2Model ----
(***************************************************************************)
(* A model of the OpenCL command queue wrapper `Queue`                     *)
(* (src/standard/queue.rs): the struct's four fields, its constructor,     *)
(* the derived Clone, the implicit Drop, flush / finish / info, the        *)
(* accessors and DerefMut, over a reference-counted platform runtime.      *)
(***************************************************************************)
EXTENDS Naturals, Sequences, FiniteSets, Bags

\* ------------------------------------------------------------------ bounds
NumQueues  == 2      \* native queue objects the platform can ever allocate
MaxHandles == 2      \* Queue values the callers hold at one time
MaxCmds    == 1      \* commands enqueued in one run, over all queues

QueueIds  == 1 .. NumQueues
Threads   == {"t1"}
ConcThreads == {"t1", "t2"}    \* the threads of the concurrent specification
Contexts  == {"c1"}
Devices   == {"d1", "d2"}

\* Option<CommandQueueProperties>: None is {}, Some(flags) is {flags}.
PropInputs == { {}, {{"OutOfOrder"}} }

\* The devices each context was built over, and the flags a device accepts.
ContextDevices == [c \in Contexts |-> {"d1", "d2"}]
DeviceFlags    == [d \in Devices  |-> IF d = "d1" THEN {"OutOfOrder"} ELSE {}]

\* The OpenCL version each device reports (1.1 and 1.2).
devVer == [d \in Devices |-> IF d = "d1" THEN 11 ELSE 12]

InfoKinds == {"Context", "Device", "ReferenceCount", "Properties"}

VARIABLES
    nq,         \* platform: the native queue objects
    ctxRc,      \* platform: reference count of each native context
    deviceOk,   \* platform: FALSE while the device is lost / unavailable
    cmds,       \* platform: per native queue, the status of each command
    callerCtx,  \* the caller still holds its own Context handle
    handles,    \* the Queue values alive in the program, a bag of structs
    pc,         \* per thread: idle, or blocked inside finish on a borrowed Queue
    last        \* the call the step just taken returned from: its result, the
                \* native queue it was about, the commands enqueued when it
                \* began, the platform calls it made

vars == <<nq, ctxRc, deviceOk, cmds, callerCtx, handles, pc, last>>

\* ------------------------------------------------------------ the platform
FreeQueue == [state |-> "free", rc |-> 0, ctx |-> "none", dev |-> "none",
              props |-> {}, destroys |-> 0]

\* clRetainCommandQueue, as CommandQueueCore::clone calls it.
RetainQueue(q_nq, q) == [q_nq EXCEPT ![q].rc = @ + 1]

\* clReleaseCommandQueue, as CommandQueueCore::drop calls it: the platform
\* destroys the object when the count reaches zero.  Releasing an object whose
\* count is already zero destroys it a second time.
ReleaseQueue(q_nq, q) ==
    IF q_nq[q].rc <= 1
    THEN [q_nq EXCEPT ![q] = [FreeQueue EXCEPT !.state = "destroyed",
                                                !.destroys = q_nq[q].destroys + 1]]
    ELSE [q_nq EXCEPT ![q].rc = @ - 1]

\* clRetainContext / clReleaseContext, as ContextCore::clone / drop call them.
RetainContext(c_rc, c)  == [c_rc EXCEPT ![c] = @ + 1]
ReleaseContext(c_rc, c) == [c_rc EXCEPT ![c] = IF @ = 0 THEN 0 ELSE @ - 1]

Flags(p) == IF p = {} THEN {} ELSE CHOOSE f \in p : TRUE

FreeQueueIds == {q \in QueueIds : nq[q].state = "free"}
Least(S)     == CHOOSE x \in S : \A y \in S : x <= y

\* core::create_command_queue: the platform allocates a native queue with
\* count 1, or rejects the request and allocates nothing.
create_command_queue(c, d, p) ==
    IF ctxRc[c] = 0 THEN [res |-> "InvalidContext", q |-> 0, nq |-> nq]
    ELSE IF d \notin ContextDevices[c]
         THEN [res |-> "InvalidDevice", q |-> 0, nq |-> nq]
    ELSE IF ~(Flags(p) \subseteq DeviceFlags[d])
         THEN [res |-> "InvalidQueueProperties", q |-> 0, nq |-> nq]
    ELSE IF FreeQueueIds = {}
         THEN [res |-> "OutOfResources", q |-> 0, nq |-> nq]
    ELSE LET q == Least(FreeQueueIds) IN
         [res |-> "Ok", q |-> q,
          nq  |-> [nq EXCEPT ![q] = [state |-> "live", rc |-> 1, ctx |-> c,
                                     dev |-> d, props |-> Flags(p),
                                     destroys |-> 0]]]

\* Device::version: the device's reported version, or a failed query.
version(d, verOk) ==
    IF verOk THEN [res |-> "Ok", val |-> devVer[d]]
    ELSE [res |-> "DeviceInfoFailure", val |-> 0]

Dispatch(s, n) ==
    [i \in 1 .. Len(s) |-> IF i <= n /\ s[i] = "queued" THEN "dispatched" ELSE s[i]]

\* core::flush (clFlush): hands every queued command to the device.  Each
\* platform operation reports, as `calls`, the native calls it made.
core_flush(q) ==
    IF nq[q].state # "live"
    THEN [res |-> "InvalidCommandQueue", cmds |-> cmds, calls |-> <<"clFlush">>]
    ELSE IF ~deviceOk
         THEN [res |-> "DeviceFailure", cmds |-> cmds, calls |-> <<"clFlush">>]
    ELSE [res |-> "Ok", cmds |-> [cmds EXCEPT ![q] = Dispatch(@, Len(@))],
          calls |-> <<"clFlush">>]

RECURSIVE SumLen(_)
SumLen(S) == IF S = {} THEN 0
             ELSE LET q == CHOOSE x \in S : TRUE IN Len(cmds[q]) + SumLen(S \ {q})
Enqueued == SumLen(QueueIds)

AllComplete(q, n) == \A i \in 1 .. n : cmds[q][i] = "complete"

\* core::finish (clFinish), entry: an implicit flush, then the wait, which is
\* over at once when nothing is pending.
core_finish(q) ==
    IF nq[q].state # "live"
    THEN [res |-> "InvalidCommandQueue", cmds |-> cmds, calls |-> <<"clFinish">>]
    ELSE IF ~deviceOk
         THEN [res |-> "DeviceFailure", cmds |-> cmds, calls |-> <<"clFinish">>]
    ELSE IF AllComplete(q, Len(cmds[q]))
         THEN [res |-> "Ok", cmds |-> cmds, calls |-> <<"clFinish">>]
    ELSE [res |-> "Wait", cmds |-> [cmds EXCEPT ![q] = Dispatch(@, Len(@))],
          calls |-> <<"clFinish">>]

\* core::get_command_queue_info (clGetCommandQueueInfo).
get_command_queue_info(q, kind) ==
    IF nq[q].state # "live"
    THEN [res |-> "InvalidCommandQueue", val |-> 0,
          calls |-> <<"clGetCommandQueueInfo">>]
    ELSE IF ~deviceOk
         THEN [res |-> "DeviceFailure", val |-> 0,
               calls |-> <<"clGetCommandQueueInfo">>]
    ELSE [res |-> "Ok", calls |-> <<"clGetCommandQueueInfo">>,
          val |-> CASE kind = "Context"        -> nq[q].ctx
                    [] kind = "Device"         -> nq[q].dev
                    [] kind = "ReferenceCount" -> nq[q].rc
                    [] kind = "Properties"     -> nq[q].props]

\* ---------------------------------------------------------------- Queue
NoHandle == [obj_core |-> 0, context_obj_core |-> "none", device |-> "none",
             device_version |-> 0]

Handles   == BagToSet(handles)
One(h)    == SetToBag({h})
Idle      == [op |-> "idle", h |-> NoHandle, n |-> 0, calls |-> <<>>]
NoCall    == [op |-> "none", res |-> "Ok", q |-> 0, n |-> 0, calls |-> <<>>]

\* The Queue values no call is borrowing: these may be dropped or borrowed
\* mutably.
Borrows(h)    == Cardinality({u \in DOMAIN pc : pc[u].h = h})

\* Mutant: a Queue value may be dropped or replaced while a call borrows it.
Unborrowed_unchecked(h) == BagIn(h, handles)

Unborrowed(h) == BagIn(h, handles) /\ CopiesIn(h, handles) > Borrows(h)

\* The accessors: plain reads of the fields.
core(h)           == h.obj_core
context_core(h)   == h.context_obj_core
device(h)         == h.device
device_version(h) == h.device_version

\* Mutant: the struct literal caches a hard-coded OpenCL 1.1.
QueueStruct_fixed_version(q, c, d, v) ==
    [obj_core |-> q, context_obj_core |-> c, device |-> d, device_version |-> 11]

\* The struct literal of Queue::new.
QueueStruct(q, c, d, v) ==
    [obj_core |-> q, context_obj_core |-> c, device |-> d, device_version |-> v]

\* Mutant: the early return forgets the native queue (no release).
new_early_return_leak(q_nq, q) == q_nq

\* try!(device.version()) returning early: obj_core goes out of scope and
\* its Drop releases the native queue just created.
new_early_return(q_nq, q) == ReleaseQueue(q_nq, q)

\* Mutant: the context core is copied without being retained.
new_context_obj_core_unretained(c_rc, c) == c_rc

\* context.core().clone() in the struct literal.
new_context_obj_core(c_rc, c) == RetainContext(c_rc, c)

Call(op, res, q, n) ==
    [op |-> op, res |-> res, q |-> q, n |-> n, calls |-> <<>>]

\* Mutant: the context core is cloned before the version query and forgotten,
\* not dropped, when that query fails.
new_context_cloned_first(t, c, d, p, verOk) ==
    /\ pc[t] = Idle
    /\ callerCtx[c]
    /\ LET cq == create_command_queue(c, d, p) IN
       IF cq.res # "Ok"
       THEN /\ last' = Call("new", cq.res, 0, 0)
            /\ UNCHANGED <<nq, ctxRc, handles>>
       ELSE LET dv == version(d, verOk) IN
            IF dv.res # "Ok"
            THEN /\ nq' = new_early_return(cq.nq, cq.q)
                 /\ last' = Call("new", dv.res, cq.q, 0)
                 /\ ctxRc' = new_context_obj_core(ctxRc, c)
                 /\ UNCHANGED handles
            ELSE /\ BagCardinality(handles) < MaxHandles
                 /\ handles' = handles (+) One(QueueStruct(cq.q, c, d, dv.val))
                 /\ last' = Call("new", "Ok", cq.q, 0)
                 /\ nq' = cq.nq
                 /\ ctxRc' = new_context_obj_core(ctxRc, c)
    /\ UNCHANGED <<deviceOk, cmds, callerCtx, pc>>

\* Queue::new(context, device, properties).
new(t, c, d, p, verOk) ==
    /\ pc[t] = Idle
    /\ callerCtx[c]
    /\ LET cq == create_command_queue(c, d, p) IN
       IF cq.res # "Ok"
       THEN /\ last' = Call("new", cq.res, 0, 0)
            /\ UNCHANGED <<nq, ctxRc, handles>>
       ELSE LET dv == version(d, verOk) IN
            IF dv.res # "Ok"
            THEN /\ nq' = new_early_return(cq.nq, cq.q)
                 /\ last' = Call("new", dv.res, cq.q, 0)
                 /\ UNCHANGED <<ctxRc, handles>>
            ELSE /\ BagCardinality(handles) < MaxHandles
                 /\ handles' = handles (+) One(QueueStruct(cq.q, c, d, dv.val))
                 /\ last' = Call("new", "Ok", cq.q, 0)
                 /\ nq' = cq.nq
                 /\ ctxRc' = new_context_obj_core(ctxRc, c)
    /\ UNCHANGED <<deviceOk, cmds, callerCtx, pc>>

\* Mutants: a field is copied bit for bit, without the retain.
clone_obj_core_unretained(q_nq, q)         == q_nq
clone_context_obj_core_unretained(c_rc, c) == c_rc

\* Mutant: the clone does not copy the cached version but resets it to 1.1.
clone_fields_version_reset(h) ==
    [obj_core |-> core(h), context_obj_core |-> context_core(h),
     device |-> device(h), device_version |-> 11]

\* #[derive(Clone)], field by field.
clone_obj_core(q_nq, q)         == RetainQueue(q_nq, q)
clone_context_obj_core(c_rc, c) == RetainContext(c_rc, c)
clone_fields(h) ==
    [obj_core |-> core(h), context_obj_core |-> context_core(h),
     device |-> device(h), device_version |-> device_version(h)]

\* Queue::clone.
clone(t, h) ==
    /\ pc[t] = Idle
    /\ BagIn(h, handles)
    /\ BagCardinality(handles) < MaxHandles
    /\ handles' = handles (+) One(clone_fields(h))
    /\ nq' = clone_obj_core(nq, core(h))
    /\ ctxRc' = clone_context_obj_core(ctxRc, context_core(h))
    /\ last' = Call("clone", "Ok", 0, 0)
    /\ UNCHANGED <<deviceOk, cmds, callerCtx, pc>>

\* Mutant: the native queue is forgotten instead of released.
drop_obj_core_forgotten(q_nq, q) == q_nq

\* The drop glue of the struct: each owning field is dropped.
drop_obj_core(q_nq, q)         == ReleaseQueue(q_nq, q)
drop_context_obj_core(c_rc, c) == ReleaseContext(c_rc, c)

\* A Queue value goes out of scope.
drop(t, h) ==
    /\ pc[t] = Idle
    /\ Unborrowed(h)
    /\ handles' = handles (-) One(h)
    /\ nq' = drop_obj_core(nq, core(h))
    /\ ctxRc' = drop_context_obj_core(ctxRc, context_core(h))
    /\ last' = Call("drop", "Ok", core(h), 0)
    /\ UNCHANGED <<deviceOk, cmds, callerCtx, pc>>

\* Mutants: flush forwards to clFinish; flush returns Ok without calling the
\* platform; finish forwards to clFlush.
flush_call_finish(q)  == core_finish(q)
flush_call_skipped(q) == [res |-> "Ok", cmds |-> cmds, calls |-> <<>>]
finish_call_flush(q)  == core_flush(q)

\* Mutant: flush calls the platform a second time when the first call fails.
flush_call_retry(q) ==
    IF core_flush(q).res = "Ok" THEN core_flush(q)
    ELSE [core_flush(q) EXCEPT !.calls = @ \o core_flush(q).calls]

\* The platform call each method forwards to.
flush_call(q)  == core_flush(q)
finish_call(q) == core_finish(q)

\* Mutant: flush takes the Queue by value, so the value is dropped on return.
flush_consumes_self(t, h) ==
    /\ pc[t] = Idle
    /\ Unborrowed(h)
    /\ LET r == flush_call(core(h)) IN
       /\ cmds' = r.cmds
       /\ last' = [Call("flush", r.res, core(h), 0) EXCEPT !.calls = r.calls]
    /\ handles' = handles (-) One(h)
    /\ nq' = drop_obj_core(nq, core(h))
    /\ ctxRc' = drop_context_obj_core(ctxRc, context_core(h))
    /\ UNCHANGED <<deviceOk, callerCtx, pc>>

\* Queue::flush.
flush(t, h) ==
    /\ pc[t] = Idle
    /\ BagIn(h, handles)
    /\ LET r == flush_call(core(h)) IN
       /\ cmds' = r.cmds
       /\ last' = [Call("flush", r.res, core(h), 0) EXCEPT !.calls = r.calls]
    /\ UNCHANGED <<nq, ctxRc, deviceOk, callerCtx, handles, pc>>

\* Queue::finish, the call: it returns at once when the platform answers at
\* once, and otherwise blocks the thread.
finish(t, h) ==
    /\ pc[t] = Idle
    /\ BagIn(h, handles)
    /\ LET r == finish_call(core(h)) IN
       /\ cmds' = r.cmds
       /\ IF r.res = "Wait"
          THEN /\ pc' = [pc EXCEPT ![t] = [op |-> "finish", h |-> h,
                                           n |-> Len(cmds[core(h)]),
                                           calls |-> r.calls]]
               /\ last' = NoCall
          ELSE /\ last' = [Call("finish", r.res, core(h), Len(cmds[core(h)]))
                             EXCEPT !.calls = r.calls]
               /\ UNCHANGED pc
    /\ UNCHANGED <<nq, ctxRc, deviceOk, callerCtx, handles>>

\* Queue::finish, the return: clFinish wakes when every command enqueued
\* before the call has completed, or when the device is lost.
finish_return(t) ==
    /\ pc[t].op = "finish"
    /\ \/ ~deviceOk
       \/ AllComplete(core(pc[t].h), pc[t].n)
    /\ last' = [Call("finish", IF deviceOk THEN "Ok" ELSE "DeviceFailure",
                     core(pc[t].h), pc[t].n) EXCEPT !.calls = pc[t].calls]
    /\ pc' = [pc EXCEPT ![t] = Idle]
    /\ UNCHANGED <<nq, ctxRc, deviceOk, cmds, callerCtx, handles>>

\* Mutant: the reference count is answered from a value remembered at
\* construction, without a platform call.
info_cached_count(h, kind) ==
    IF kind = "ReferenceCount" THEN [res |-> "Ok", val |-> 1, calls |-> <<>>]
    ELSE get_command_queue_info(core(h), kind)

\* Queue::info: a query of the platform's current state, changing nothing.
info(h, kind) == get_command_queue_info(core(h), kind)

Accessors == {"core", "context_core", "device", "device_version"}

\* Mutant: core() returns an owned clone of the core, which retains.
borrow_obj_core_cloned(q_nq, q) == RetainQueue(q_nq, q)

\* `&self.obj_core` and `&self.context_obj_core`: a borrow, no retain.
borrow_obj_core(q_nq, q)         == q_nq
borrow_context_obj_core(c_rc, c) == c_rc

\* A call of core(), context_core(), device() or device_version()
\* (core_as_ref, as_ref and deref are core() under other names).
accessor(t, h, which) ==
    /\ pc[t] = Idle
    /\ BagIn(h, handles)
    /\ nq' = IF which = "core" THEN borrow_obj_core(nq, core(h)) ELSE nq
    /\ ctxRc' = IF which = "context_core"
                THEN borrow_context_obj_core(ctxRc, context_core(h)) ELSE ctxRc
    /\ last' = Call("accessor", "Ok", 0, 0)
    /\ UNCHANGED <<deviceOk, cmds, callerCtx, handles, pc>>

\* The answer to a query that reaches the platform while the device is lost.
InfoLost == [res |-> "DeviceFailure", val |-> 0,
             calls |-> <<"clGetCommandQueueInfo">>]

\* Debug of a CommandQueueInfoResult: the value, or the error as text.
Render(r) == IF r.res = "Ok" THEN <<"Ok", r.val>> ELSE <<"Error", r.res>>

\* Mutant: the first failed query aborts the formatting with an error.
fmt_info_propagates(h, lost, wOk) ==
    LET field(k) == IF k \in lost THEN InfoLost ELSE info(h, k)
        failed   == {k \in InfoKinds : field(k).res # "Ok"} IN
    [res  |-> IF wOk /\ failed = {} THEN "Ok" ELSE "FmtError",
     text |-> [k \in InfoKinds \ failed |-> Render(field(k))]]

\* Queue::fmt_info: a debug_struct of the four queries, made one after the
\* other; `lost` are the queries the device is lost for (it can go and come
\* back between two of them), wOk whether the formatter's writer accepts the
\* text.
fmt_info(h, lost, wOk) ==
    LET field(k) == IF k \in lost THEN InfoLost ELSE info(h, k) IN
    [res  |-> IF wOk THEN "Ok" ELSE "FmtError",
     text |-> [k \in InfoKinds |-> Render(field(k))]]

\* impl Display for Queue.
fmt(h, lost, wOk) == fmt_info(h, lost, wOk)

\* DerefMut: `*queue = other.core().clone()` through the &mut CommandQueueCore
\* that deref_mut hands out.  The old core is dropped, the new one moved in.
deref_mut(t, h, h2) ==
    /\ pc[t] = Idle
    /\ Unborrowed(h)
    /\ BagIn(h2, handles)
    /\ core(h2) # core(h)
    /\ nq' = ReleaseQueue(RetainQueue(nq, core(h2)), core(h))
    /\ handles' = (handles (-) One(h)) (+) One([h EXCEPT !.obj_core = core(h2)])
    /\ last' = Call("deref_mut", "Ok", 0, 0)
    /\ UNCHANGED <<ctxRc, deviceOk, cmds, callerCtx, pc>>

\* ------------------------------------------------------- the environment
\* The caller drops its own Context handle.
DropContext(c) ==
    /\ callerCtx[c]
    /\ callerCtx' = [callerCtx EXCEPT ![c] = FALSE]
    /\ ctxRc' = ReleaseContext(ctxRc, c)
    /\ last' = NoCall
    /\ UNCHANGED <<nq, deviceOk, cmds, handles, pc>>

\* A collaborator (kernel, buffer) enqueues a command through core().
Enqueue(h) ==
    /\ BagIn(h, handles)
    /\ nq[core(h)].state = "live"
    /\ Enqueued < MaxCmds
    /\ cmds' = [cmds EXCEPT ![core(h)] = Append(@, "queued")]
    /\ last' = NoCall
    /\ UNCHANGED <<nq, ctxRc, deviceOk, callerCtx, handles, pc>>

\* The device completes a dispatched command, in submission order.
DeviceComplete(q, i) ==
    /\ deviceOk
    /\ i \in 1 .. Len(cmds[q])
    /\ cmds[q][i] = "dispatched"
    /\ \A j \in 1 .. (i - 1) : cmds[q][j] = "complete"
    /\ cmds' = [cmds EXCEPT ![q][i] = "complete"]
    /\ last' = NoCall
    /\ UNCHANGED <<nq, ctxRc, deviceOk, callerCtx, handles, pc>>

DeviceFail ==
    /\ deviceOk
    /\ deviceOk' = FALSE
    /\ last' = NoCall
    /\ UNCHANGED <<nq, ctxRc, cmds, callerCtx, handles, pc>>

DeviceRecover ==
    /\ ~deviceOk
    /\ deviceOk' = TRUE
    /\ last' = NoCall
    /\ UNCHANGED <<nq, ctxRc, cmds, callerCtx, handles, pc>>

\* ------------------------------------------------------ the specification
Init ==
    /\ nq = [q \in QueueIds |-> FreeQueue]
    /\ ctxRc = [c \in Contexts |-> 1]
    /\ deviceOk = TRUE
    /\ cmds = [q \in QueueIds |-> <<>>]
    /\ callerCtx = [c \in Contexts |-> TRUE]
    /\ handles = EmptyBag
    /\ pc = [t \in Threads |-> Idle]
    /\ last = NoCall

Next ==
    \/ \E t \in Threads, c \in Contexts, d \in Devices, p \in PropInputs,
          verOk \in BOOLEAN : new(t, c, d, p, verOk)
    \/ \E t \in Threads, h \in Handles : clone(t, h)
    \/ \E t \in Threads, h \in Handles : drop(t, h)
    \/ \E t \in Threads, h \in Handles : flush(t, h)
    \/ \E t \in Threads, h \in Handles : finish(t, h)
    \/ \E t \in Threads : finish_return(t)
    \/ \E t \in Threads, h \in Handles, h2 \in Handles : deref_mut(t, h, h2)
    \/ \E t \in Threads, h \in Handles, which \in Accessors : accessor(t, h, which)
    \/ \E c \in Contexts : DropContext(c)
    \/ \E h \in Handles : Enqueue(h)
    \/ \E q \in QueueIds, i \in 1 .. MaxCmds : DeviceComplete(q, i)
    \/ DeviceFail
    \/ DeviceRecover

Spec == Init /\ [][Next]_vars

\* A fair device: it completes what was dispatched to it, and comes back
\* after a failure.  Nothing is assumed of the callers.
LiveSpec ==
    /\ Init /\ [][Next]_vars
    /\ WF_vars(DeviceRecover)
    /\ \A q \in QueueIds : \A i \in 1 .. MaxCmds : SF_vars(DeviceComplete(q, i))

\* The same program run by two threads that share the Queue values: each step
\* is one call (or the return of a blocked finish) of either thread.
ConcInit ==
    /\ nq = [q \in QueueIds |-> FreeQueue]
    /\ ctxRc = [c \in Contexts |-> 1]
    /\ deviceOk = TRUE
    /\ cmds = [q \in QueueIds |-> <<>>]
    /\ callerCtx = [c \in Contexts |-> TRUE]
    /\ handles = EmptyBag
    /\ pc = [t \in ConcThreads |-> Idle]
    /\ last = NoCall

ConcNext ==
    \/ \E t \in ConcThreads, c \in Contexts, d \in Devices, p \in PropInputs,
          verOk \in BOOLEAN : new(t, c, d, p, verOk)
    \/ \E t \in ConcThreads, h \in Handles : clone(t, h)
    \/ \E t \in ConcThreads, h \in Handles : drop(t, h)
    \/ \E t \in ConcThreads, h \in Handles : flush(t, h)
    \/ \E t \in ConcThreads, h \in Handles : finish(t, h)
    \/ \E t \in ConcThreads : finish_return(t)
    \/ \E t \in ConcThreads, h \in Handles, h2 \in Handles : deref_mut(t, h, h2)
    \/ \E t \in ConcThreads, h \in Handles, which \in Accessors :
          accessor(t, h, which)
    \/ \E c \in Contexts : DropContext(c)
    \/ \E h \in Handles : Enqueue(h)
    \/ \E q \in QueueIds, i \in 1 .. MaxCmds : DeviceComplete(q, i)
    \/ DeviceFail
    \/ DeviceRecover

ConcSpec == ConcInit /\ [][ConcNext]_vars

\* ------------------------------------------------------------- properties
\* The Queue values holding native queue q / native context c.
HandlesOn(q) == {h \in Handles : core(h) = q}
Refs(q)      == BagCardinality([h \in HandlesOn(q) |-> handles[h]])
HandlesIn(c) == {h \in Handles : context_core(h) = c}
CtxRefs(c)   == BagCardinality([h \in HandlesIn(c) |-> handles[h]])
LiveQueues   == {q \in QueueIds : nq[q].state = "live"}

\* The step is a call of Queue::new.
NewStep ==
    \E t \in Threads, c \in Contexts, d \in Devices, p \in PropInputs,
       verOk \in BOOLEAN : new(t, c, d, p, verOk)
Allocated    == {q \in QueueIds : nq[q].state # "free"}

\* C1: every live Queue value refers to a native queue that has not been
\* destroyed, whatever clones were made and dropped: flush, finish and info
\* through it are never answered "invalid command queue", and are accepted
\* whenever the device itself is available.
C1_HandlesReachLiveQueue ==
    /\ \A h \in Handles :
          /\ nq[core(h)].state = "live"
          /\ nq[core(h)].rc >= 1
          /\ flush_call(core(h)).res \in {"Ok", "DeviceFailure"}
          /\ finish_call(core(h)).res \in {"Ok", "Wait", "DeviceFailure"}
          /\ \A k \in InfoKinds : info(h, k).res \in {"Ok", "DeviceFailure"}
          /\ deviceOk => /\ flush_call(core(h)).res = "Ok"
                         /\ finish_call(core(h)).res \in {"Ok", "Wait"}
                         /\ \A k \in InfoKinds : info(h, k).res = "Ok"
    /\ last.op \in {"flush", "finish"} => last.res \in {"Ok", "DeviceFailure"}

\* A handle was cloned and one of the two dropped: the other one remains, the
\* only holder of the only native queue there ever was, and flush succeeds.
C1_Witness ==
    /\ last.op = "drop" /\ last.q = 1
    /\ nq[2].state = "free"
    /\ \E h \in Handles : core(h) = 1 /\ nq[1].rc = 1 /\ flush_call(1).res = "Ok"

\* C2: a native queue is alive exactly as long as a Queue value holds it: its
\* count is the number of holders, it is destroyed in the step that takes the
\* last holder away, never before, never twice, and never outlives them.
C2_DestroyedExactlyOnceAtLastDrop ==
    \A q \in QueueIds :
       /\ nq[q].rc = Refs(q)
       /\ (nq[q].state = "live") <=> (Refs(q) >= 1)
       /\ nq[q].destroys <= 1
       /\ (nq[q].state = "destroyed") <=> (nq[q].destroys = 1)
       /\ (nq[q].state = "free") <=> (nq[q].destroys = 0 /\ Refs(q) = 0)

\* The drop of the last holder has just destroyed the queue, once.
C2_Witness ==
    /\ last.op = "drop" /\ last.q = 1
    /\ nq[1].state = "destroyed" /\ nq[1].destroys = 1
    /\ Refs(1) = 0

\* C3: a clone step adds one to the native queue's count and one to the native
\* context's count, allocates no native queue, touches no other native queue,
\* and adds a Queue value equal, field by field, to the one cloned.
C3_CloneSharesQueue ==
    [][\A t \in Threads : \A h \in Handles :
         clone(t, h) =>
            /\ nq'[core(h)].rc = nq[core(h)].rc + 1
            /\ ctxRc'[context_core(h)] = ctxRc[context_core(h)] + 1
            /\ {q \in QueueIds : nq'[q].state # "free"} = Allocated
            /\ \A q \in QueueIds \ {core(h)} : nq'[q] = nq[q]
            /\ nq'[core(h)] = [nq[core(h)] EXCEPT !.rc = @ + 1]
            /\ handles' = handles (+) One(h)]_vars

\* A clone was just made: two equal Queue values on one native queue.
C3_Witness ==
    /\ last.op = "clone"
    /\ \E h \in Handles : CopiesIn(h, handles) = 2 /\ nq[core(h)].rc = 2

\* C4: a create step that fails adds no Queue value, leaves the set of live
\* native queues and every reference count as they were, and any native queue
\* it allocated is destroyed, with count zero, when the step ends.
C4_FailedCreateLeaksNothing ==
    [][(last'.op = "new" /\ last'.res # "Ok" /\ NewStep) =>
            /\ handles' = handles
            /\ ctxRc' = ctxRc
            /\ {q \in QueueIds : nq'[q].state = "live"} = LiveQueues
            /\ \A q \in QueueIds :
                  \/ nq'[q] = nq[q]
                  \/ /\ nq[q].state = "free"
                     /\ nq'[q].state = "destroyed"
                     /\ nq'[q].rc = 0 /\ nq'[q].destroys = 1]_vars

\* The device-version query failed after the native queue had been created,
\* and that queue is gone.
C4_Witness ==
    /\ last.op = "new" /\ last.res = "DeviceInfoFailure"
    /\ nq[last.q].state = "destroyed"

\* C5: a create step either fails and adds no Queue value, or adds exactly one
\* whose cached version is the version the device reported in that call.
C5_CreateCachesReportedVersion ==
    [][last'.op = "new" =>
         \A t \in Threads, c \in Contexts, d \in Devices, p \in PropInputs,
            verOk \in BOOLEAN :
           new(t, c, d, p, verOk) =>
              \/ /\ last'.res # "Ok"
                 /\ handles' = handles
              \/ /\ last'.res = "Ok"
                 /\ version(d, verOk).res = "Ok"
                 /\ \E h \in BagToSet(handles') :
                       /\ handles' = handles (+) One(h)
                       /\ device(h) = d
                       /\ device_version(h) = version(d, verOk).val]_vars

\* A queue was just created on the device that reports OpenCL 1.2, and the
\* Queue value carries 1.2.
C5_Witness ==
    /\ last.op = "new" /\ last.res = "Ok"
    /\ \E h \in Handles : core(h) = last.q /\ device(h) = "d2"
                          /\ device_version(h) = 12

\* C6: while a Queue value is live its context is live: the native context's
\* count is the caller's own handle, if still held, plus one per Queue value.
C6_ContextOutlivesHandles ==
    /\ \A h \in Handles : ctxRc[context_core(h)] >= 1
    /\ \A c \in Contexts :
          ctxRc[c] = (IF callerCtx[c] THEN 1 ELSE 0) + CtxRefs(c)

\* The caller has dropped its context handle and one of two clones; the
\* context lives on for the remaining Queue value.
C6_Witness ==
    /\ last.op = "drop"
    /\ ~callerCtx["c1"]
    /\ \E h \in Handles : context_core(h) = "c1" /\ ctxRc["c1"] = 1
NoQueued(q)    == \A i \in 1 .. Len(cmds[q]) : cmds[q][i] # "queued"
JustFlushed(q) == last.op = "flush" /\ last.res = "Ok" /\ last.q = q

\* C7: when finish has just returned success, every command that was on the
\* queue when the call began has completed on the device.
C7_FinishReturnsAfterCompletion ==
    (last.op = "finish" /\ last.res = "Ok") =>
        /\ last.n <= Len(cmds[last.q])
        /\ \A i \in 1 .. last.n : cmds[last.q][i] = "complete"

\* finish has returned success for a queue that had a command on it.
C7_Witness ==
    /\ last.op = "finish" /\ last.res = "Ok"
    /\ last.n >= 1 /\ cmds[last.q][1] = "complete"

\* C8: flush never waits; when it has just returned success every command on
\* the queue has been handed to the device; and under a fair device each
\* dispatched command completes, whatever the callers do afterwards.
C8_FlushDispatchesWithoutWaiting ==
    /\ [](last.op = "flush" =>
            /\ last.res \in {"Ok", "DeviceFailure"}
            /\ last.res = "Ok" =>
                  \A i \in 1 .. Len(cmds[last.q]) :
                     cmds[last.q][i] \in {"dispatched", "complete"})
    /\ \A q \in QueueIds : \A i \in 1 .. MaxCmds :
          (i <= Len(cmds[q]) /\ cmds[q][i] = "dispatched")
             ~> (i <= Len(cmds[q]) /\ cmds[q][i] = "complete")

\* flush has returned success while the command it dispatched is still
\* running on the device.
C8_Witness ==
    /\ last.op = "flush" /\ last.res = "Ok"
    /\ Len(cmds[last.q]) >= 1
    /\ \E i \in 1 .. Len(cmds[last.q]) : cmds[last.q][i] = "dispatched"

\* C9: a finish call made right after a successful flush, or on a queue with
\* nothing left to dispatch, changes no command, no native object and no
\* Queue value; with the device available it is accepted, it returns success,
\* at once when nothing is pending, and so does flush.
C9_FinishAfterFlushIsNoOp ==
    [][/\ \A t \in Threads : \A h \in Handles :
            ((JustFlushed(core(h)) \/ NoQueued(core(h))) /\ finish(t, h)) =>
               /\ UNCHANGED <<cmds, nq, ctxRc, handles, callerCtx, deviceOk>>
               /\ deviceOk =>
                     \/ last'.op = "finish" /\ last'.res = "Ok"
                     \/ pc'[t].op = "finish"
               /\ (deviceOk /\ AllComplete(core(h), Len(cmds[core(h)]))) =>
                     (last'.op = "finish" /\ last'.res = "Ok" /\ pc'[t] = Idle)
       /\ \A t \in Threads :
            finish_return(t) =>
               /\ UNCHANGED <<cmds, nq, ctxRc, handles, callerCtx, deviceOk>>
               /\ deviceOk => last'.res = "Ok"
       /\ \A t \in Threads : \A h \in Handles :
            (deviceOk /\ flush(t, h)) => last'.res = "Ok"]_vars

\* finish has returned success on a freshly created queue that never had a
\* command: nothing about the queue has changed.
C9_Witness ==
    /\ last.op = "finish" /\ last.res = "Ok" /\ last.n = 0
    /\ cmds[last.q] = <<>>
    /\ nq[last.q].state = "live" /\ nq[last.q].rc = 1

\* C10: for every live Queue value, info(Context) and info(Device) are the
\* cached context_core() and device(), and info(ReferenceCount) and
\* info(Properties) are the native queue's count and construction-time flags.
C10_InfoAgreesWithCache ==
    \A h \in Handles :
       deviceOk =>
          /\ info(h, "Context").val = context_core(h)
          /\ info(h, "Device").val = device(h)
          /\ info(h, "ReferenceCount").val = nq[core(h)].rc
          /\ info(h, "Properties").val = nq[core(h)].props

\* The cached part of a Queue value, and the number of Queue values caching x.
Cached(h)      == <<context_core(h), device(h), device_version(h)>>
CachedCount(x) ==
    BagCardinality([h \in {g \in Handles : Cached(g) = x} |-> handles[h]])

\* C11: the cached context, device and version of a Queue value never change:
\* the version is always the one its device reports; no step rewrites a cached
\* triple, a step only adds one (create, or clone, which repeats a triple that
\* was there) or takes one away (drop).
C11_CachedFieldsImmutable ==
    /\ [](\A h \in Handles : device_version(h) = devVer[device(h)])
    /\ [][\A x \in {Cached(h) : h \in Handles} \cup {Cached(h) : h \in Handles'} :
            \/ CachedCount(x)' = CachedCount(x)
            \/ /\ CachedCount(x)' = CachedCount(x) + 1
               /\ \/ last'.op = "new" /\ last'.res = "Ok"
                  \/ last'.op = "clone" /\ CachedCount(x) >= 1
            \/ /\ CachedCount(x)' = CachedCount(x) - 1
               /\ last'.op = "drop"]_vars

\* Even after its native queue was swapped for one on the other device, the
\* Queue value created on the 1.2 device still reports that device and 1.2.
C11_Witness ==
    /\ last.op = "deref_mut"
    /\ \E h \in Handles : /\ device(h) = "d2" /\ device_version(h) = 12
                          /\ nq[core(h)].dev = "d1"

\* The step is a call of flush or finish, or the return of a blocked finish.
FlushOrFinishStep ==
    \/ \E t \in DOMAIN pc : \E h \in Handles : flush(t, h) \/ finish(t, h)
    \/ \E t \in DOMAIN pc : finish_return(t)

\* C12: a flush or finish that the platform fails made exactly one platform
\* call, of its own operation, and returns the error that call gave; it
\* changes no Queue value and no reference count, and a later flush or finish
\* through any Queue value is again one call to the platform.
C12_FailureSurfacedOnce ==
    [][(last'.op \in {"flush", "finish"} /\ last'.res # "Ok"
          /\ FlushOrFinishStep) =>
         /\ last'.calls = <<IF last'.op = "flush" THEN "clFlush" ELSE "clFinish">>
         /\ IF pc' = pc
            THEN last'.res = (IF last'.op = "flush" THEN core_flush(last'.q)
                                                   ELSE core_finish(last'.q)).res
            ELSE ~deviceOk /\ last'.res = "DeviceFailure"
         /\ UNCHANGED <<handles, nq, ctxRc, cmds>>
         /\ \A h \in Handles :
               /\ flush_call(core(h))'.calls = <<"clFlush">>
               /\ finish_call(core(h))'.calls = <<"clFinish">>
               /\ flush_call(core(h))'.res = core_flush(core(h))'.res
               /\ finish_call(core(h))'.res = core_finish(core(h))'.res]_vars

\* finish was blocked on a running command when the device was lost: it has
\* returned the device failure, after its one clFinish, and the Queue value is
\* still there with its count.
C12_Witness ==
    /\ last.op = "finish" /\ last.res = "DeviceFailure" /\ last.n >= 1
    /\ last.calls = <<"clFinish">>
    /\ cmds[last.q][1] = "dispatched"
    /\ \E h \in Handles : core(h) = last.q /\ nq[last.q].rc = 1

\* A command's status only moves forward: queued, dispatched, complete.
Rank(st) == CASE st = "queued" -> 0 [] st = "dispatched" -> 1 [] st = "complete" -> 2

\* C13: a step of flush or finish, successful or not, leaves every native
\* queue's state and count, every context's count and the Queue values as they
\* were; no command appears or disappears, and only commands of the queue the
\* call was made on may move, forward, from queued to dispatched.
C13_FlushFinishFrame ==
    [][((last'.op \in {"flush", "finish"} \/ pc' # pc) /\ FlushOrFinishStep) =>
         /\ UNCHANGED <<nq, ctxRc, handles, callerCtx, deviceOk>>
         /\ \A q \in QueueIds :
               /\ Len(cmds'[q]) = Len(cmds[q])
               /\ \A i \in 1 .. Len(cmds[q]) :
                     /\ Rank(cmds'[q][i]) >= Rank(cmds[q][i])
                     /\ cmds'[q][i] # cmds[q][i] =>
                           /\ cmds[q][i] = "queued" /\ cmds'[q][i] = "dispatched"
                           /\ \E h \in Handles : core(h) = q
                           /\ last'.op # "none" => last'.q = q]_vars

\* flush has just failed on a queue shared by two Queue values, with a command
\* still queued: both values and both counts are as they were.
C13_Witness ==
    /\ last.op = "flush" /\ last.res = "DeviceFailure"
    /\ nq[last.q].rc = 2 /\ Refs(last.q) = 2 /\ ctxRc["c1"] = 3
    /\ cmds[last.q] = <<"queued">>

\* C14: formatting a Queue value succeeds whenever the writer accepts the
\* text, whichever of the four queries fail: the text has all four fields, a
\* failed query shown as its error and every other one as the platform's
\* current value.
C14_DisplayNeverFailsOnInfo ==
    \A h \in Handles : \A lost \in SUBSET InfoKinds :
       LET out == fmt(h, lost, TRUE) IN
       /\ out.res = "Ok"
       /\ DOMAIN out.text = InfoKinds
       /\ \A k \in InfoKinds :
             IF k \in lost \/ ~deviceOk
             THEN out.text[k] = <<"Error", "DeviceFailure">>
             ELSE out.text[k] =
                     <<"Ok", CASE k = "Context"        -> nq[core(h)].ctx
                               [] k = "Device"         -> nq[core(h)].dev
                               [] k = "ReferenceCount" -> nq[core(h)].rc
                               [] k = "Properties"     -> nq[core(h)].props>>
       /\ fmt(h, lost, FALSE).res = "FmtError"

\* A Queue value with a clone whose Device query fails while the other three
\* are answered: the formatting succeeds, the error is in the text next to the
\* three values.
C14_Witness ==
    \E h \in Handles :
       LET out == fmt(h, {"Device"}, TRUE) IN
       /\ deviceOk /\ out.res = "Ok"
       /\ out.text["Device"] = <<"Error", "DeviceFailure">>
       /\ out.text["Context"] = <<"Ok", "c1">>
       /\ out.text["ReferenceCount"] = <<"Ok", 2>>
       /\ out.text["Properties"] = <<"Ok", {"OutOfOrder"}>>

\* C15: with two threads interleaving their calls on shared Queue values, a
\* thread inside a call, and every Queue value, is on a native queue and a
\* native context that are alive; each count is the number of its holders, no
\* update lost; a native queue is destroyed once, and only when no Queue value
\* holds it any more.
C15_ConcurrentClonesSafe ==
    /\ \A t \in DOMAIN pc :
          pc[t].op = "finish" =>
             /\ BagIn(pc[t].h, handles)
             /\ nq[core(pc[t].h)].state = "live"
             /\ ctxRc[context_core(pc[t].h)] >= 1
    /\ \A h \in Handles :
          /\ nq[core(h)].state = "live"
          /\ ctxRc[context_core(h)] >= 1
          /\ \A k \in InfoKinds : info(h, k).res # "InvalidCommandQueue"
    /\ last.op \in {"flush", "finish"} => last.res \in {"Ok", "DeviceFailure"}
    /\ \A q \in QueueIds :
          /\ nq[q].rc = Refs(q)
          /\ nq[q].destroys <= 1
          /\ (nq[q].state = "destroyed") <=> (nq[q].destroys = 1)
          /\ (nq[q].state = "live") <=> (Refs(q) >= 1)
    /\ \A c \in Contexts :
          ctxRc[c] = (IF callerCtx[c] THEN 1 ELSE 0) + CtxRefs(c)

\* While one thread is blocked in finish on a Queue value, the other thread
\* has just dropped its clone: the native queue lives on with count 1.
C15_Witness ==
    /\ DOMAIN pc = ConcThreads
    /\ \E t \in DOMAIN pc :
          /\ pc[t].op = "finish"
          /\ last.op = "drop" /\ last.q = core(pc[t].h)
          /\ nq[last.q].state = "live" /\ nq[last.q].rc = 1

\* C16: info(ReferenceCount) is always one platform query; while the device
\* answers, its value is the native queue's count at that moment, which is the
\* number of Queue values on the queue and at least 1; a clone step raises the
\* value seen through every Queue value on that queue by one, a drop step
\* lowers the value seen through the remaining ones by one.
C16_InfoNeverCached ==
    /\ [](\A h \in Handles :
            LET r == info(h, "ReferenceCount") IN
            /\ r.calls = <<"clGetCommandQueueInfo">>
            /\ deviceOk => /\ r.res = "Ok"
                           /\ r.val = nq[core(h)].rc
                           /\ r.val = Refs(core(h))
                           /\ r.val >= 1)
    /\ [][(deviceOk /\ deviceOk') =>
            /\ \A h \in Handles \cap Handles' :
                  LET before == info(h, "ReferenceCount").val
                      after  == info(h, "ReferenceCount")'.val IN
                  /\ after + Refs(core(h)) = before + Refs(core(h))'
                  /\ (last'.op = "drop" /\ last'.q = core(h)) => after = before - 1
            /\ last'.op = "clone" =>
                  \E h \in Handles :
                     info(h, "ReferenceCount")'.val =
                        info(h, "ReferenceCount").val + 1]_vars

\* After a clone, the count read through a Queue value is 2; it was 1 when
\* the queue was created.
C16_Witness ==
    /\ last.op = "clone" /\ deviceOk
    /\ \E h \in Handles :
          /\ info(h, "ReferenceCount").res = "Ok"
          /\ info(h, "ReferenceCount").val = 2
          /\ info(h, "ReferenceCount").calls = <<"clGetCommandQueueInfo">>

\* C17: a create step succeeds exactly when both the queue creation and the
\* version query succeed, and then adds one to the count of the context it was
\* given and nothing to any other; a create step that fails, at either point,
\* leaves every context count as it was.
C17_CreateRetainsContextOnSuccessOnly ==
    [][last'.op = "new" =>
         \A t \in DOMAIN pc, c \in Contexts, d \in Devices, p \in PropInputs,
            verOk \in BOOLEAN :
           new(t, c, d, p, verOk) =>
              /\ (last'.res = "Ok") <=>
                    /\ create_command_queue(c, d, p).res = "Ok"
                    /\ version(d, verOk).res = "Ok"
              /\ IF last'.res = "Ok"
                 THEN ctxRc' = [ctxRc EXCEPT ![c] = @ + 1]
                 ELSE ctxRc' = ctxRc]_vars

\* A second create on the context failed at the version query: the context's
\* count is still the caller's handle plus the one Queue value.
C17_Witness ==
    /\ last.op = "new" /\ last.res = "DeviceInfoFailure"
    /\ BagCardinality(handles) = 1
    /\ callerCtx["c1"] /\ ctxRc["c1"] = 2

\* C18: a step of an accessor makes no platform call and changes nothing of
\* the platform or of any Queue value: native queues, counts, commands and the
\* Queue values are as before, so the queue that core() exposes is still held
\* by the Queue value, with the count it had.
C18_AccessorsChangeNothing ==
    [][last'.op = "accessor" =>
         \A t \in DOMAIN pc : \A h \in Handles : \A which \in Accessors :
            accessor(t, h, which) =>
               /\ UNCHANGED <<nq, ctxRc, cmds, deviceOk, callerCtx, handles, pc>>
               /\ last'.calls = <<>>
               /\ BagIn(h, handles') /\ nq'[core(h)].state = "live"
               /\ nq'[core(h)].rc = Refs(core(h))']_vars

\* An accessor was just called on the only Queue value of a queue: the count
\* is still 1 and the value still holds the queue.
C18_Witness ==
    /\ last.op = "accessor"
    /\ \E h \in Handles : nq[core(h)].rc = 1 /\ Refs(core(h)) = 1
                          /\ ctxRc[context_core(h)] = 2
====
